---------------------------- MODULE Spec2Model ----------------------------
(***************************************************************************)
(* State-machine model of the three scripts of sophia_msk_scripts:         *)
(*   - sg-upload-v2-wrapper.py  (updater / launcher of the uploader jar)   *)
(*   - sophia.py                (run launcher)                             *)
(*   - validate.py              (validator of the CLI)                     *)
(* Each script is a short sequential process; the file system, the         *)
(* network, the syslog socket and the child processes are the environment, *)
(* whose answers are chosen nondeterministically where the code asks.      *)
(* Text is modelled as sequences of one-character strings.                 *)
(***************************************************************************)
EXTENDS Integers, Sequences, FiniteSets, TLC

VARIABLES
    \* ---- sg-upload-v2-wrapper.py
    u_pc,             \* position in main(): start, fetched, updated, built, exited, off
    argv,             \* sys.argv
    jar,              \* the file sg-upload-v2-latest.jar: <<>> absent, <<c>> content c
    jar0,             \* history: the file as it was when the process started
    fetch,            \* outcome of urlopen in get_remote_checksum: none/raised/non200/ok
    remote_checksum,  \* value returned by get_remote_checksum()
    downloads,        \* number of completed download_latest_uploader() calls
    download_failed,  \* history: download_latest_uploader() raised
    cmd,              \* the command list built by build_command
    child,            \* the wrapped java process: [kind, code]
    u_out,            \* lines printed on standard output (tags)
    u_err,            \* what reached standard error (tags)
    u_exit,           \* <<>> while running, <<status>> once the process has exited
    \* ---- sophia.py
    l_pc,             \* position in main(): start, root, prepare, build, report, exited, off
    args,             \* parsed command line: [dry_run, nohup_log]
    seen,             \* what the file-system checks answered: unknown / yes / no
    sheet,            \* rows of the SampleSheet as csv.reader yields them
    details,          \* result of extract_experiment_details
    upload_command,   \* result of build_upload_command
    spawned,          \* number of child processes started by launch_nohup
    l_syslog,         \* how syslog behaved when log_error was called
    l_log,            \* messages that reached syslog
    l_out,            \* standard output (tags)
    l_err,            \* standard error (tags)
    l_exit,           \* <<>> while running, <<status>> once the process has exited
    \* ---- validate.py
    v_pc,             \* next check of main(): login, recent, pipeline, fastq, exited, off
    RECENT_RUNS_TO_CHECK, \* configuration: recent_runs_to_check
    FASTQ_TESTS,      \* configuration: fastq_tests
    calls,            \* CLI modes invoked so far through run_command, in order
    last,             \* (exit_code, output) of the latest run_command
    fastq_index,      \* number of FASTQ test cases that have passed
    v_failure,        \* the exception main() caught: [check, cause]
    v_syslog,         \* how syslog behaved when log_validation_failure was called
    v_log,            \* messages that reached syslog
    v_out,            \* standard output (tags)
    v_err,            \* standard error (tags)
    v_exit            \* <<>> while running, <<status>> once the process has exited

u_vars == <<u_pc, argv, jar, jar0, fetch, remote_checksum, downloads,
            download_failed, cmd, child, u_out, u_err, u_exit>>

l_vars == <<l_pc, args, seen, sheet, details, upload_command, spawned,
            l_syslog, l_log, l_out, l_err, l_exit>>

v_vars == <<v_pc, RECENT_RUNS_TO_CHECK, FASTQ_TESTS, calls, last, fastq_index,
            v_failure, v_syslog, v_log, v_out, v_err, v_exit>>

vars == <<u_vars, l_vars, v_vars>>

-----------------------------------------------------------------------------
(* Bounds of the model *)

\* longest sys.argv considered (script name included)
MaxArgs == 2
\* length of a modelled hex digest (md5 gives 32 hex digits)
DigestLen == 1
\* longest body of the remote .md5 file considered
MaxBody == 2
\* longest second cell of a SampleSheet row considered
MaxValueLen == 3
\* most rows before, and most rows after, the row under study in a sheet
MaxSkipped == 1
MaxLater == 1
\* longest combined output of a CLI call considered
MaxOutput == 2
\* most lines of the status listing considered
MaxLines == 2
\* largest configured recent_runs_to_check
MaxRuns == 2
\* most configured FASTQ test cases
MaxTests == 2

-----------------------------------------------------------------------------
(* Text helpers *)

\* all sequences over S of length 0..n
SeqsUpTo(S, n) == UNION {[1..k -> S] : k \in 0..n}

\* the characters Python's str.strip() removes that occur in the model
Whitespace == {" ", "\n"}

RECURSIVE LStrip(_)
LStrip(s) == IF s # <<>> /\ Head(s) \in Whitespace THEN LStrip(Tail(s)) ELSE s

RECURSIVE RStrip(_)
RStrip(s) ==
    IF s # <<>> /\ s[Len(s)] \in Whitespace
    THEN RStrip(SubSeq(s, 1, Len(s) - 1))
    ELSE s

\* str.strip()
Strip(s) == RStrip(LStrip(s))

\* str.startswith(p)
StartsWith(s, p) == Len(s) >= Len(p) /\ SubSeq(s, 1, Len(p)) = p

\* p in s, for strings
Contains(s, p) ==
    \E i \in 1..(Len(s) - Len(p) + 1) : SubSeq(s, i, i + Len(p) - 1) = p

-----------------------------------------------------------------------------
(* sg-upload-v2-wrapper.py *)

UPLOADER_FILENAME == <<"j", "a", "r">>

JavaOptPrefix == <<"-", "D">>

\* the two hex digits of the modelled digests
HexDigits == <<"a", "b">>

\* contents a jar file can have: 0 is the empty file, the others are releases
Contents == 0..(2 ^ DigestLen - 1)

\* hashlib.md5(content).hexdigest(): a DigestLen-digit string, injective on Contents
Md5(c) ==
    [i \in 1..DigestLen |-> HexDigits[((c \div (2 ^ (DigestLen - i))) % 2) + 1]]

\* states of the local jar file
JarStates == {<<>>} \cup {<<c>> : c \in Contents}

\* bodies the remote .md5 file may have
RemoteBodies == SeqsUpTo({"a", "b", "\n"}, MaxBody)

\* command-line words
ArgPool == { <<"w">>, <<"-", "D", "x">>, <<"-", "D">>, <<"n">>, <<"-", "d">> }

Argvs == UNION {[1..k -> ArgPool] : k \in 1..MaxArgs}

\* exit codes the wrapped process may return, and signals that may kill it
ExitCodes == {0, 1, 2, 255}
Signals == {9, 15}

NoChild == [kind |-> "none", code |-> 0]

\* get_current_checksum(): "" when the file is absent, else its md5
get_current_checksum(file) == IF file = <<>> THEN <<>> ELSE Md5(file[1])

\* build_command(args); sys.argv[0] is argv[1] here (sequences start at 1)
build_command(arglist) ==
    LET java_opts == SelectSeq(arglist, LAMBDA a : StartsWith(a, JavaOptPrefix))
        other_args == SelectSeq(arglist, LAMBDA a : ~StartsWith(a, JavaOptPrefix)
                                                  /\ a # argv[1])
    IN  <<<<"java">>>> \o java_opts \o <<<<"-jar">>, UPLOADER_FILENAME>> \o other_args

\* mutant of ChecksumsDiffer: the two .strip() calls left out
ChecksumsDiffer_unstripped(remote, current) == remote # current

\* the comparison of main(), lines 78-80
ChecksumsDiffer(remote, current) == Strip(remote) # Strip(current)

\* mutant of ExitStatus: any failure of the child reported as 1
ExitStatus_flattened(n) == IF n = 0 THEN 0 ELSE 1

\* process exit status for sys.exit(n): the low 8 bits
ExitStatus(n) == n % 256

U_Init ==
    /\ u_pc = "start"
    /\ argv \in Argvs
    /\ jar \in JarStates
    /\ jar0 = jar
    /\ fetch = "none"
    /\ remote_checksum = <<>>
    /\ downloads = 0
    /\ download_failed = FALSE
    /\ cmd = <<>>
    /\ child = NoChild
    /\ u_out = <<>>
    /\ u_err = <<>>
    /\ u_exit = <<>>

\* get_remote_checksum(): urlopen raises (URLError, HTTPError for 4xx/5xx, ...)
FetchRaises ==
    /\ u_pc = "start"
    /\ fetch' = "raised"
    /\ remote_checksum' = <<>>
    /\ u_out' = Append(u_out, "error_connecting")
    /\ u_pc' = "fetched"
    /\ UNCHANGED <<argv, jar, jar0, downloads, download_failed, cmd, child, u_err, u_exit>>
    /\ UNCHANGED <<l_vars, v_vars>>

\* get_remote_checksum(): a response whose status is not 200: sys.exit(1);
\* SystemExit is not an Exception, so the except clause does not catch it
FetchNon200 ==
    /\ u_pc = "start"
    /\ fetch' = "non200"
    /\ u_out' = Append(u_out, "error_not_found")
    /\ u_exit' = <<1>>
    /\ u_pc' = "exited"
    /\ UNCHANGED <<argv, jar, jar0, remote_checksum, downloads, download_failed, cmd, child, u_err>>
    /\ UNCHANGED <<l_vars, v_vars>>

\* get_remote_checksum(): status 200, the body is returned
FetchOk ==
    /\ u_pc = "start"
    /\ \E body \in RemoteBodies : remote_checksum' = body
    /\ fetch' = "ok"
    /\ u_pc' = "fetched"
    /\ UNCHANGED <<argv, jar, jar0, downloads, download_failed, cmd, child, u_out, u_err, u_exit>>
    /\ UNCHANGED <<l_vars, v_vars>>

\* main(), line 70-71
NoNewVersion ==
    /\ u_pc = "fetched"
    /\ remote_checksum = <<>>
    /\ u_out' = Append(u_out, "warn_no_new_version")
    /\ u_pc' = "updated"
    /\ UNCHANGED <<argv, jar, jar0, fetch, remote_checksum, downloads, download_failed, cmd, child,
                   u_err, u_exit>>
    /\ UNCHANGED <<l_vars, v_vars>>

\* whether main() calls download_latest_uploader(), lines 70-86
NeedsDownload(remote, current) ==
    /\ remote # <<>>
    /\ \/ current = <<>>
       \/ ChecksumsDiffer(remote, current)

\* download_latest_uploader() succeeds: the file is overwritten
DownloadOk ==
    /\ u_pc = "fetched"
    /\ NeedsDownload(remote_checksum, get_current_checksum(jar))
    /\ \E c \in Contents : jar' = <<c>>
    /\ downloads' = downloads + 1
    /\ u_out' = u_out \o (IF get_current_checksum(jar) = <<>>
                          THEN <<"downloading">>
                          ELSE <<"current", "remote", "updated">>)
    /\ u_pc' = "updated"
    /\ UNCHANGED <<argv, jar0, fetch, remote_checksum, download_failed, cmd, child,
                   u_err, u_exit>>
    /\ UNCHANGED <<l_vars, v_vars>>

\* download_latest_uploader() raises: in urlopen (file untouched) or in
\* response.read() after open(..., 'wb') has truncated the file.  Nothing in
\* main() catches it: traceback on stderr, exit status 1.
DownloadRaises ==
    /\ u_pc = "fetched"
    /\ NeedsDownload(remote_checksum, get_current_checksum(jar))
    /\ \/ jar' = jar
       \/ jar' = <<0>>
    /\ u_out' = u_out \o (IF get_current_checksum(jar) = <<>>
                          THEN <<"downloading">>
                          ELSE <<"current", "remote">>)
    /\ download_failed' = TRUE
    /\ u_err' = Append(u_err, "traceback")
    /\ u_exit' = <<1>>
    /\ u_pc' = "exited"
    /\ UNCHANGED <<argv, jar0, fetch, remote_checksum, downloads, cmd, child>>
    /\ UNCHANGED <<l_vars, v_vars>>

\* main(), line 85-86
UpToDate ==
    /\ u_pc = "fetched"
    /\ remote_checksum # <<>>
    /\ ~NeedsDownload(remote_checksum, get_current_checksum(jar))
    /\ u_out' = Append(u_out, "up_to_date")
    /\ u_pc' = "updated"
    /\ UNCHANGED <<argv, jar, jar0, fetch, remote_checksum, downloads, download_failed, cmd, child,
                   u_err, u_exit>>
    /\ UNCHANGED <<l_vars, v_vars>>

\* main(), line 88
BuildCommand ==
    /\ u_pc = "updated"
    /\ cmd' = build_command(argv)
    /\ u_pc' = "built"
    /\ UNCHANGED <<argv, jar, jar0, fetch, remote_checksum, downloads, download_failed, child,
                   u_out, u_err, u_exit>>
    /\ UNCHANGED <<l_vars, v_vars>>

\* main(), lines 91-95: the child exits with a code
RunExits ==
    /\ u_pc = "built"
    /\ \E c \in ExitCodes :
          /\ child' = [kind |-> "exited", code |-> c]
          /\ u_exit' = <<ExitStatus(c)>>
    /\ u_pc' = "exited"
    /\ UNCHANGED <<argv, jar, jar0, fetch, remote_checksum, downloads, download_failed, cmd,
                   u_out, u_err>>
    /\ UNCHANGED <<l_vars, v_vars>>

\* main(), lines 91-95: the child is killed by a signal, returncode = -signal
RunSignaled ==
    /\ u_pc = "built"
    /\ \E s \in Signals :
          /\ child' = [kind |-> "signaled", code |-> s]
          /\ u_exit' = <<ExitStatus(0 - s)>>
    /\ u_pc' = "exited"
    /\ UNCHANGED <<argv, jar, jar0, fetch, remote_checksum, downloads, download_failed, cmd,
                   u_out, u_err>>
    /\ UNCHANGED <<l_vars, v_vars>>

\* main(), line 91: subprocess.run raises (no java on PATH): traceback, exit 1
RunRaises ==
    /\ u_pc = "built"
    /\ child' = [kind |-> "spawn_failed", code |-> 0]
    /\ u_err' = Append(u_err, "traceback")
    /\ u_exit' = <<1>>
    /\ u_pc' = "exited"
    /\ UNCHANGED <<argv, jar, jar0, fetch, remote_checksum, downloads, download_failed, cmd, u_out>>
    /\ UNCHANGED <<l_vars, v_vars>>

U_Next ==
    \/ FetchRaises
    \/ FetchNon200
    \/ FetchOk
    \/ NoNewVersion
    \/ DownloadOk
    \/ DownloadRaises
    \/ UpToDate
    \/ BuildCommand
    \/ RunExits
    \/ RunSignaled
    \/ RunRaises

-----------------------------------------------------------------------------
(* sophia.py *)

UpperLetters == <<"A", "B", "C", "D", "E", "F", "G", "H", "I", "J", "K", "L", "M",
                  "N", "O", "P", "Q", "R", "S", "T", "U", "V", "W", "X", "Y", "Z">>
LowerLetters == <<"a", "b", "c", "d", "e", "f", "g", "h", "i", "j", "k", "l", "m",
                  "n", "o", "p", "q", "r", "s", "t", "u", "v", "w", "x", "y", "z">>

\* str.lower()
Lower(s) ==
    [i \in 1..Len(s) |->
        IF \E k \in 1..Len(UpperLetters) : UpperLetters[k] = s[i]
        THEN LowerLetters[CHOOSE k \in 1..Len(UpperLetters) : UpperLetters[k] = s[i]]
        ELSE s[i]]

\* the label compared in extract_experiment_details, line 105
ExperimentNameLabel ==
    <<"e", "x", "p", "e", "r", "i", "m", "e", "n", "t", " ", "n", "a", "m", "e">>

Separator == "_"

\* mutant of Partition: split at the last separator (str.rpartition)
Partition_last(s, sep) ==
    IF \E i \in 1..Len(s) : s[i] = sep
    THEN LET i == CHOOSE j \in 1..Len(s) :
                      s[j] = sep /\ \A k \in (j + 1)..Len(s) : s[k] # sep
         IN  <<SubSeq(s, 1, i - 1), <<sep>>, SubSeq(s, i + 1, Len(s))>>
    ELSE <<<<>>, <<>>, s>>

\* str.partition(sep): split at the first separator
Partition(s, sep) ==
    IF \E i \in 1..Len(s) : s[i] = sep
    THEN LET i == CHOOSE j \in 1..Len(s) :
                      s[j] = sep /\ \A k \in 1..(j - 1) : s[k] # sep
         IN  <<SubSeq(s, 1, i - 1), <<sep>>, SubSeq(s, i + 1, Len(s))>>
    ELSE <<s, <<>>, <<>>>>

\* the row test of line 105
IsExperimentNameRow(row) ==
    row # <<>> /\ Lower(Strip(row[1])) = ExperimentNameLabel

ExtractError(tag) ==
    [ok |-> FALSE, error |-> tag, experiment_name |-> <<>>,
     bds_identifier |-> <<>>, raw_value |-> <<>>]

NoDetails == ExtractError("none")

\* mutant of extract_experiment_details: a matching row that cannot be used
\* is passed over and the rows after it are searched
RECURSIVE extract_experiment_details_searching(_)
extract_experiment_details_searching(rows) ==
    IF rows = <<>>
    THEN ExtractError("not_found_or_malformed")
    ELSE LET row == Head(rows)
             raw_value == Strip(row[2])
             parts == Partition(raw_value, Separator)
         IN  IF /\ IsExperimentNameRow(row)
                /\ Len(row) >= 2
                /\ parts[1] # <<>> /\ parts[2] # <<>> /\ parts[3] # <<>>
             THEN [ok |-> TRUE, error |-> "none",
                   experiment_name |-> parts[1],
                   bds_identifier |-> parts[3],
                   raw_value |-> raw_value]
             ELSE extract_experiment_details_searching(Tail(rows))

\* extract_experiment_details(sample_sheet), on the rows of the sheet
RECURSIVE extract_experiment_details(_)
extract_experiment_details(rows) ==
    IF rows = <<>>
    THEN ExtractError("not_found_or_malformed")
    ELSE LET row == Head(rows) IN
         IF IsExperimentNameRow(row)
         THEN IF Len(row) < 2 \/ Strip(row[2]) = <<>>
              THEN ExtractError("not_found_or_malformed")
              ELSE LET raw_value == Strip(row[2])
                       parts == Partition(raw_value, Separator)
                   IN  IF parts[2] = <<>> \/ parts[1] = <<>> \/ parts[3] = <<>>
                       THEN ExtractError("no_bds_component")
                       ELSE [ok |-> TRUE, error |-> "none",
                             experiment_name |-> parts[1],
                             bds_identifier |-> parts[3],
                             raw_value |-> raw_value]
         ELSE extract_experiment_details(Tail(rows))

\* mutant of build_upload_command_error: the BaseCalls check left out
build_upload_command_error_nobasecalls(basecalls_is_dir, wrapper_exists) ==
    IF ~wrapper_exists THEN "wrapper_not_found" ELSE "none"

\* the exception build_upload_command raises, "none" when it returns
build_upload_command_error(basecalls_is_dir, wrapper_exists) ==
    IF ~basecalls_is_dir THEN "basecalls_not_found"
    ELSE IF ~wrapper_exists THEN "wrapper_not_found"
    ELSE "none"

\* the list build_upload_command returns
build_upload_command(experiment_name) ==
    << <<"python3">>, <<"wrapper_path">>, <<"new">>, <<"--folder">>,
       <<"basecalls_path">>, <<"--ref">>, experiment_name, <<"--pipeline">>,
       <<"PIPELINE_ID">>, <<"--upload">> >>

\* log_error(message): what syslog holds afterwards.  The logger is missing
\* (SysLogHandler raised OSError), or raises, or works; nothing escapes.
SyslogModes == {"ok", "unavailable", "raises"}

log_error(log, mode, message) ==
    IF mode = "ok" THEN Append(log, message) ELSE log

YesNo(b) == IF b THEN "yes" ELSE "no"

\* first cells of rows
LabelPlain ==
    <<"E", "x", "p", "e", "r", "i", "m", "e", "n", "t", " ", "N", "a", "m", "e">>
LabelPadded ==
    <<" ", "E", "X", "P", "E", "R", "I", "M", "E", "N", "T", " ", "N", "A", "M", "E", " ">>
LabelDate == <<"D", "a", "t", "e">>
LabelPool == {LabelPlain, LabelPadded, LabelDate}

\* second cells of rows
ValuePool == SeqsUpTo({"R", "_", " "}, MaxValueLen)
GoodValue == <<"R", "_", "B">>

\* the row under study: any label, with or without any value
FocusRows ==
    {<<>>} \cup {<<l>> : l \in LabelPool}
           \cup {<<l, v>> : l \in LabelPool, v \in ValuePool}

\* rows that may precede it (first cell does not match) and rows that may follow
SkippedRows == {<<>>, <<LabelDate, GoodValue>>}
LaterRows == {<<LabelPlain, GoodValue>>}

Sheets ==
    { b \o f \o a : b \in SeqsUpTo(SkippedRows, MaxSkipped),
                    f \in SeqsUpTo(FocusRows, 1),
                    a \in SeqsUpTo(LaterRows, MaxLater) }

NothingSeen ==
    [run_folder |-> "unknown", root |-> "unknown", sheet |-> "unknown",
     basecalls |-> "unknown", wrapper |-> "unknown"]

L_Init ==
    /\ l_pc = "start"
    /\ args \in [dry_run : BOOLEAN, nohup_log : BOOLEAN]
    /\ seen = NothingSeen
    /\ sheet = <<>>
    /\ details = NoDetails
    /\ upload_command = <<>>
    /\ spawned = 0
    /\ l_syslog = "unused"
    /\ l_log = <<>>
    /\ l_out = <<>>
    /\ l_err = <<>>
    /\ l_exit = <<>>

\* the launcher is not running
L_Off ==
    /\ l_pc = "off"
    /\ args = [dry_run |-> FALSE, nohup_log |-> FALSE]
    /\ seen = NothingSeen
    /\ sheet = <<>>
    /\ details = NoDetails
    /\ upload_command = <<>>
    /\ spawned = 0
    /\ l_syslog = "unused"
    /\ l_log = <<>>
    /\ l_out = <<>>
    /\ l_err = <<>>
    /\ l_exit = <<>>

\* a fatal path of main(): log_error(message), print(message, file=sys.stderr),
\* sys.exit(1)
L_Fatal(message) ==
    /\ \E mode \in SyslogModes :
          /\ l_syslog' = mode
          /\ l_log' = log_error(l_log, mode, message)
    /\ l_err' = Append(l_err, message)
    /\ l_exit' = <<1>>
    /\ l_pc' = "exited"

\* main(), lines 213-217
L_RunFolderMissing ==
    /\ l_pc = "start"
    /\ seen' = [seen EXCEPT !.run_folder = "no"]
    /\ L_Fatal("run_folder_not_found")
    /\ UNCHANGED <<args, sheet, details, upload_command, spawned, l_out>>
    /\ UNCHANGED <<u_vars, v_vars>>

\* main(), line 214, the folder is there
L_RunFolderOk ==
    /\ l_pc = "start"
    /\ seen' = [seen EXCEPT !.run_folder = "yes"]
    /\ l_pc' = "root"
    /\ UNCHANGED <<args, sheet, details, upload_command, spawned, l_syslog, l_log,
                   l_out, l_err, l_exit>>
    /\ UNCHANGED <<u_vars, v_vars>>

\* main(), lines 219-226
L_RootMissing ==
    /\ l_pc = "root"
    /\ seen' = [seen EXCEPT !.root = "no"]
    /\ L_Fatal("samplesheet_root_not_found")
    /\ UNCHANGED <<args, sheet, details, upload_command, spawned, l_out>>
    /\ UNCHANGED <<u_vars, v_vars>>

\* main(), line 220, the root is there
L_RootOk ==
    /\ l_pc = "root"
    /\ seen' = [seen EXCEPT !.root = "yes"]
    /\ l_pc' = "prepare"
    /\ UNCHANGED <<args, sheet, details, upload_command, spawned, l_syslog, l_log,
                   l_out, l_err, l_exit>>
    /\ UNCHANGED <<u_vars, v_vars>>

\* locate_samplesheet raises FileNotFoundError; main(), lines 232-235
L_SheetMissing ==
    /\ l_pc = "prepare"
    /\ seen' = [seen EXCEPT !.sheet = "no"]
    /\ L_Fatal("error_preparing_upload")
    /\ UNCHANGED <<args, sheet, details, upload_command, spawned, l_out>>
    /\ UNCHANGED <<u_vars, v_vars>>

\* the sheet is found but sample_sheet.open raises an OSError other than
\* FileNotFoundError (no read permission), or csv raises csv.Error: main()
\* catches neither; traceback on stderr, exit status 1, nothing logged
L_SheetUnreadable ==
    /\ l_pc = "prepare"
    /\ seen' = [seen EXCEPT !.sheet = "yes"]
    /\ l_err' = Append(l_err, "traceback")
    /\ l_exit' = <<1>>
    /\ l_pc' = "exited"
    /\ UNCHANGED <<args, sheet, details, upload_command, spawned, l_syslog, l_log,
                   l_out>>
    /\ UNCHANGED <<u_vars, v_vars>>

\* the sheet is found and extract_experiment_details raises ValueError;
\* main(), lines 229-235
L_ExtractFails ==
    /\ l_pc = "prepare"
    /\ seen' = [seen EXCEPT !.sheet = "yes"]
    /\ \E s \in Sheets :
          /\ ~extract_experiment_details(s).ok
          /\ sheet' = s
          /\ details' = extract_experiment_details(s)
    /\ L_Fatal("error_preparing_upload")
    /\ UNCHANGED <<args, upload_command, spawned, l_out>>
    /\ UNCHANGED <<u_vars, v_vars>>

\* the sheet is found and extract_experiment_details returns; main(), 229-230
L_ExtractOk ==
    /\ l_pc = "prepare"
    /\ seen' = [seen EXCEPT !.sheet = "yes"]
    /\ \E s \in Sheets :
          /\ extract_experiment_details(s).ok
          /\ sheet' = s
          /\ details' = extract_experiment_details(s)
    /\ l_pc' = "build"
    /\ UNCHANGED <<args, upload_command, spawned, l_syslog, l_log, l_out, l_err,
                   l_exit>>
    /\ UNCHANGED <<u_vars, v_vars>>

\* build_upload_command raises FileNotFoundError; main(), lines 231-235.
\* The wrapper script is looked for only when BaseCalls is a directory.
L_BuildFails ==
    /\ l_pc = "build"
    /\ \E b, w \in BOOLEAN :
          /\ build_upload_command_error(b, w) # "none"
          /\ seen' = [seen EXCEPT !.basecalls = YesNo(b),
                                  !.wrapper = IF b THEN YesNo(w) ELSE @]
    /\ L_Fatal("error_preparing_upload")
    /\ UNCHANGED <<args, sheet, details, upload_command, spawned, l_out>>
    /\ UNCHANGED <<u_vars, v_vars>>

\* build_upload_command returns; main(), lines 231 and 237-243
L_BuildOk ==
    /\ l_pc = "build"
    /\ \E b, w \in BOOLEAN :
          /\ build_upload_command_error(b, w) = "none"
          /\ seen' = [seen EXCEPT !.basecalls = YesNo(b), !.wrapper = YesNo(w)]
    /\ upload_command' = build_upload_command(details.experiment_name)
    /\ l_out' = Append(l_out, "upload_command")
    /\ l_pc' = "report"
    /\ UNCHANGED <<args, sheet, details, spawned, l_syslog, l_log, l_err, l_exit>>
    /\ UNCHANGED <<u_vars, v_vars>>

\* main(), lines 245-246: dry run, main returns
L_DryRun ==
    /\ l_pc = "report"
    /\ args.dry_run
    /\ l_exit' = <<0>>
    /\ l_pc' = "exited"
    /\ UNCHANGED <<args, seen, sheet, details, upload_command, spawned, l_syslog,
                   l_log, l_out, l_err>>
    /\ UNCHANGED <<u_vars, v_vars>>

\* launch_nohup raises (creating or opening the log file, only when a log path
\* was given, or Popen itself); main(), lines 252-257
L_LaunchFails ==
    /\ l_pc = "report"
    /\ ~args.dry_run
    /\ L_Fatal("failed_to_launch")
    /\ UNCHANGED <<args, seen, sheet, details, upload_command, spawned, l_out>>
    /\ UNCHANGED <<u_vars, v_vars>>

\* launch_nohup returns the started process; main(), lines 252-263
L_LaunchOk ==
    /\ l_pc = "report"
    /\ ~args.dry_run
    /\ spawned' = spawned + 1
    /\ l_out' = l_out \o <<"upload_started",
                           IF args.nohup_log THEN "output_redirected"
                                             ELSE "output_nohup_out">>
    /\ l_exit' = <<0>>
    /\ l_pc' = "exited"
    /\ UNCHANGED <<args, seen, sheet, details, upload_command, l_syslog, l_log,
                   l_err>>
    /\ UNCHANGED <<u_vars, v_vars>>

L_Next ==
    \/ L_RunFolderMissing
    \/ L_RunFolderOk
    \/ L_RootMissing
    \/ L_RootOk
    \/ L_SheetMissing
    \/ L_SheetUnreadable
    \/ L_ExtractFails
    \/ L_ExtractOk
    \/ L_BuildFails
    \/ L_BuildOk
    \/ L_DryRun
    \/ L_LaunchFails
    \/ L_LaunchOk

-----------------------------------------------------------------------------
(* validate.py *)

\* configuration values (validation_config.yaml)
EXPECTED_LOGIN_IAM_MESSAGE == <<"a", "b">>
EXPECTED_PIPELINE_ID == <<"b">>

\* combined outputs of a CLI call
Outputs == SeqsUpTo({"a", "b"}, MaxOutput)

Digits == {"1", "2"}

\* lines of the status listing
LinePool ==
    { <<"1", ":", " ", "o">>,
      <<" ", "1", "2", ":", " ", " ", "o">>,
      <<"1", ":", "o">>,
      <<"o", ":", " ", "o">>,
      <<"1", ":", " ">> }

StatusOutputs == SeqsUpTo(LinePool, MaxLines)

\* the index after the longest run of characters of S that starts at i
RECURSIVE SkipRun(_, _, _)
SkipRun(s, i, S) ==
    IF i <= Len(s) /\ s[i] \in S THEN SkipRun(s, i + 1, S) ELSE i

\* re.match(r"^\s*\d+:\s+\S+", line)
MatchesRunLine(line) ==
    LET d == SkipRun(line, 1, Whitespace)
        c == SkipRun(line, d, Digits)
        w == SkipRun(line, c + 1, Whitespace)
    IN  /\ c > d
        /\ c <= Len(line) /\ line[c] = ":"
        /\ w > c + 1
        /\ w <= Len(line)

\* the number of matching lines, len(run_lines)
RECURSIVE CountRunLines(_)
CountRunLines(lines) ==
    IF lines = <<>> THEN 0
    ELSE (IF MatchesRunLine(Head(lines)) THEN 1 ELSE 0) + CountRunLines(Tail(lines))

\* mutant of validate_login_iam: the substring test left out
validate_login_iam_exitonly(exit_code, output) ==
    IF exit_code # 0 THEN "exited_nonzero" ELSE "none"

\* validate_login_iam(): the RuntimeError raised, "none" when it returns
validate_login_iam(exit_code, output) ==
    IF exit_code # 0 THEN "exited_nonzero"
    ELSE IF ~Contains(output, EXPECTED_LOGIN_IAM_MESSAGE) THEN "login_message_not_found"
    ELSE "none"

\* validate_recent_runs_listed(): the RuntimeError raised, "none" when it returns
validate_recent_runs_listed(exit_code, lines, wanted) ==
    IF exit_code # 0 THEN "exited_nonzero"
    ELSE IF CountRunLines(lines) < wanted THEN "unexpected_status_output"
    ELSE "none"

\* validate_pipeline_available(): the RuntimeError raised, "none" when it returns
validate_pipeline_available(exit_code, output) ==
    IF exit_code # 0 THEN "exited_nonzero"
    ELSE IF ~Contains(output, EXPECTED_PIPELINE_ID) THEN "pipeline_not_found"
    ELSE "none"

\* mutant of fastq_case_result: the exit-code test left out
fastq_case_result_substringonly(expected_error, exit_code, output) ==
    IF ~Contains(output, expected_error) THEN "expected_error_not_found" ELSE "none"

\* validate_fastq_errors(), lines 183-194, for one test case: the RuntimeError
\* raised after the CLI call, "none" when the loop goes on
fastq_case_result(expected_error, exit_code, output) ==
    IF ~Contains(output, expected_error) THEN "expected_error_not_found"
    ELSE IF exit_code = 0 THEN "no_error_exit_code"
    ELSE "none"

\* configured test cases: a mapping with all keys, one that lacks a key, or an
\* entry that is no mapping
TestCases ==
    [shape : {"mapping"}, expected_error : {<<"a">>, <<"b", "a">>}]
    \cup {[shape |-> "missing_key", expected_error |-> <<>>],
          [shape |-> "not_mapping", expected_error |-> <<>>]}

\* exit codes of the CLI seen by run_command
CliExitCodes == {0, 1}

NoResult == [exit_code |-> 0, output |-> <<>>]
NoFailure == [check |-> "none", cause |-> "none"]

\* log_validation_failure(exc): what syslog holds afterwards; nothing escapes
log_validation_failure(log, mode, cause) ==
    IF mode = "ok" THEN Append(log, cause) ELSE log

V_Init ==
    /\ v_pc = "login"
    /\ RECENT_RUNS_TO_CHECK \in 0..MaxRuns
    /\ FASTQ_TESTS \in SeqsUpTo(TestCases, MaxTests)
    /\ calls = <<>>
    /\ last = NoResult
    /\ fastq_index = 0
    /\ v_failure = NoFailure
    /\ v_syslog = "unused"
    /\ v_log = <<>>
    /\ v_out = <<>>
    /\ v_err = <<>>
    /\ v_exit = <<>>

\* the validator is not running
V_Off ==
    /\ v_pc = "off"
    /\ RECENT_RUNS_TO_CHECK = 0
    /\ FASTQ_TESTS = <<>>
    /\ calls = <<>>
    /\ last = NoResult
    /\ fastq_index = 0
    /\ v_failure = NoFailure
    /\ v_syslog = "unused"
    /\ v_log = <<>>
    /\ v_out = <<>>
    /\ v_err = <<>>
    /\ v_exit = <<>>

\* main(), lines 219-222: the except clause
V_Fatal(check, cause) ==
    /\ v_failure' = [check |-> check, cause |-> cause]
    /\ \E mode \in SyslogModes :
          /\ v_syslog' = mode
          /\ v_log' = log_validation_failure(v_log, mode, cause)
    /\ v_out' = Append(v_out, "validation_failed")
    /\ v_exit' = <<1>>
    /\ v_pc' = "exited"

\* a check passed: main() goes on to the next one
V_GoOn(next_pc) ==
    /\ v_pc' = next_pc
    /\ UNCHANGED <<v_failure, v_syslog, v_log, v_out, v_err, v_exit>>

\* the check main() is at, for pc values login, recent, pipeline, fastq
ChecksOfMain == {"login", "recent", "pipeline", "fastq"}

\* run_command raises inside a check (subprocess.run finds no python3): the
\* CLI call does not happen, and main() catches the exception like any other
V_RunCommandRaises ==
    /\ v_pc \in ChecksOfMain
    /\ v_pc = "fastq" =>
          /\ fastq_index < Len(FASTQ_TESTS)
          /\ FASTQ_TESTS[fastq_index + 1].shape = "mapping"
    /\ V_Fatal(v_pc, "run_command_raised")
    /\ UNCHANGED <<RECENT_RUNS_TO_CHECK, FASTQ_TESTS, calls, last, fastq_index, v_err>>
    /\ UNCHANGED <<u_vars, l_vars>>

\* validate_login_iam() raises
V_LoginFails ==
    /\ v_pc = "login"
    /\ \E e \in CliExitCodes, o \in Outputs :
          /\ validate_login_iam(e, o) # "none"
          /\ last' = [exit_code |-> e, output |-> o]
          /\ V_Fatal("login", validate_login_iam(e, o))
    /\ calls' = Append(calls, "login-iam")
    /\ UNCHANGED <<RECENT_RUNS_TO_CHECK, FASTQ_TESTS, fastq_index, v_err>>
    /\ UNCHANGED <<u_vars, l_vars>>

\* validate_login_iam() returns
V_LoginPasses ==
    /\ v_pc = "login"
    /\ \E e \in CliExitCodes, o \in Outputs :
          /\ validate_login_iam(e, o) = "none"
          /\ last' = [exit_code |-> e, output |-> o]
    /\ calls' = Append(calls, "login-iam")
    /\ V_GoOn("recent")
    /\ UNCHANGED <<RECENT_RUNS_TO_CHECK, FASTQ_TESTS, fastq_index>>
    /\ UNCHANGED <<u_vars, l_vars>>

\* validate_recent_runs_listed() raises
V_RecentFails ==
    /\ v_pc = "recent"
    /\ \E e \in CliExitCodes, o \in StatusOutputs :
          /\ validate_recent_runs_listed(e, o, RECENT_RUNS_TO_CHECK) # "none"
          /\ last' = [exit_code |-> e, output |-> o]
          /\ V_Fatal("recent", validate_recent_runs_listed(e, o, RECENT_RUNS_TO_CHECK))
    /\ calls' = Append(calls, "status")
    /\ UNCHANGED <<RECENT_RUNS_TO_CHECK, FASTQ_TESTS, fastq_index, v_err>>
    /\ UNCHANGED <<u_vars, l_vars>>

\* validate_recent_runs_listed() returns
V_RecentPasses ==
    /\ v_pc = "recent"
    /\ \E e \in CliExitCodes, o \in StatusOutputs :
          /\ validate_recent_runs_listed(e, o, RECENT_RUNS_TO_CHECK) = "none"
          /\ last' = [exit_code |-> e, output |-> o]
    /\ calls' = Append(calls, "status")
    /\ V_GoOn("pipeline")
    /\ UNCHANGED <<RECENT_RUNS_TO_CHECK, FASTQ_TESTS, fastq_index>>
    /\ UNCHANGED <<u_vars, l_vars>>

\* validate_pipeline_available() raises
V_PipelineFails ==
    /\ v_pc = "pipeline"
    /\ \E e \in CliExitCodes, o \in Outputs :
          /\ validate_pipeline_available(e, o) # "none"
          /\ last' = [exit_code |-> e, output |-> o]
          /\ V_Fatal("pipeline", validate_pipeline_available(e, o))
    /\ calls' = Append(calls, "pipeline")
    /\ UNCHANGED <<RECENT_RUNS_TO_CHECK, FASTQ_TESTS, fastq_index, v_err>>
    /\ UNCHANGED <<u_vars, l_vars>>

\* validate_pipeline_available() returns
V_PipelinePasses ==
    /\ v_pc = "pipeline"
    /\ \E e \in CliExitCodes, o \in Outputs :
          /\ validate_pipeline_available(e, o) = "none"
          /\ last' = [exit_code |-> e, output |-> o]
    /\ calls' = Append(calls, "pipeline")
    /\ V_GoOn("fastq")
    /\ UNCHANGED <<RECENT_RUNS_TO_CHECK, FASTQ_TESTS, fastq_index>>
    /\ UNCHANGED <<u_vars, l_vars>>

\* validate_fastq_errors(), lines 158-167: the next test case is no mapping or
\* lacks a key; RuntimeError before any CLI call
V_FastqCaseMalformed ==
    /\ v_pc = "fastq"
    /\ fastq_index < Len(FASTQ_TESTS)
    /\ FASTQ_TESTS[fastq_index + 1].shape # "mapping"
    /\ V_Fatal("fastq", FASTQ_TESTS[fastq_index + 1].shape)
    /\ UNCHANGED <<RECENT_RUNS_TO_CHECK, FASTQ_TESTS, calls, last, fastq_index, v_err>>
    /\ UNCHANGED <<u_vars, l_vars>>

\* validate_fastq_errors(), lines 169-194: the CLI call of the next test case
\* and a RuntimeError
V_FastqCaseFails ==
    /\ v_pc = "fastq"
    /\ fastq_index < Len(FASTQ_TESTS)
    /\ FASTQ_TESTS[fastq_index + 1].shape = "mapping"
    /\ \E e \in CliExitCodes, o \in Outputs :
          LET r == fastq_case_result(FASTQ_TESTS[fastq_index + 1].expected_error, e, o)
          IN  /\ r # "none"
              /\ last' = [exit_code |-> e, output |-> o]
              /\ V_Fatal("fastq", r)
    /\ calls' = Append(calls, "new")
    /\ UNCHANGED <<RECENT_RUNS_TO_CHECK, FASTQ_TESTS, fastq_index, v_err>>
    /\ UNCHANGED <<u_vars, l_vars>>

\* validate_fastq_errors(), lines 169-194: the CLI call of the next test case,
\* and the loop goes on
V_FastqCasePasses ==
    /\ v_pc = "fastq"
    /\ fastq_index < Len(FASTQ_TESTS)
    /\ FASTQ_TESTS[fastq_index + 1].shape = "mapping"
    /\ \E e \in CliExitCodes, o \in Outputs :
          /\ fastq_case_result(FASTQ_TESTS[fastq_index + 1].expected_error, e, o) = "none"
          /\ last' = [exit_code |-> e, output |-> o]
    /\ calls' = Append(calls, "new")
    /\ fastq_index' = fastq_index + 1
    /\ V_GoOn("fastq")
    /\ UNCHANGED <<RECENT_RUNS_TO_CHECK, FASTQ_TESTS>>
    /\ UNCHANGED <<u_vars, l_vars>>

\* main(), lines 223-226: every check returned; the success line, exit 0
V_Passed ==
    /\ v_pc = "fastq"
    /\ fastq_index = Len(FASTQ_TESTS)
    /\ v_out' = Append(v_out, "validation_passed")
    /\ v_exit' = <<0>>
    /\ v_pc' = "exited"
    /\ UNCHANGED <<RECENT_RUNS_TO_CHECK, FASTQ_TESTS, calls, last, fastq_index,
                   v_failure, v_syslog, v_log, v_err>>
    /\ UNCHANGED <<u_vars, l_vars>>

V_Next ==
    \/ V_RunCommandRaises
    \/ V_LoginFails
    \/ V_LoginPasses
    \/ V_RecentFails
    \/ V_RecentPasses
    \/ V_PipelineFails
    \/ V_PipelinePasses
    \/ V_FastqCaseMalformed
    \/ V_FastqCaseFails
    \/ V_FastqCasePasses
    \/ V_Passed

-----------------------------------------------------------------------------
(* Specifications: one script runs, the others are not running *)

\* the updater is not running
U_Off ==
    /\ u_pc = "off"
    /\ argv = <<>>
    /\ jar = <<>>
    /\ jar0 = <<>>
    /\ fetch = "none"
    /\ remote_checksum = <<>>
    /\ downloads = 0
    /\ download_failed = FALSE
    /\ cmd = <<>>
    /\ child = NoChild
    /\ u_out = <<>>
    /\ u_err = <<>>
    /\ u_exit = <<>>

\* sophia.py starts
LauncherInit == L_Init /\ U_Off /\ V_Off

SpecLauncher == LauncherInit /\ [][L_Next]_vars

\* sg-upload-v2-wrapper.py starts
UpdaterInit == U_Init /\ L_Off /\ V_Off

SpecUpdater == UpdaterInit /\ [][U_Next]_vars

\* validate.py starts
ValidatorInit == V_Init /\ U_Off /\ L_Off

SpecValidator == ValidatorInit /\ [][V_Next]_vars

-----------------------------------------------------------------------------
(* Properties of sg-upload-v2-wrapper.py *)

\* the binary has been, or is about to be, invoked: main() is at or past line 91
Invoking == u_pc = "built" \/ child.kind # "none"

\* the remote fetch produced a checksum (get_remote_checksum returned text)
FetchSucceeded == fetch = "ok" /\ remote_checksum # <<>>

\* the local file existed at start and its digest is the fetched checksum,
\* surrounding whitespace of the fetched text aside
SameChecksum == jar0 # <<>> /\ Strip(remote_checksum) = Md5(jar0[1])

C2_FetchFailureFallsBack ==
    (fetch \in {"raised", "non200"} /\ u_exit # <<>>) =>
        /\ \E i \in 1..Len(u_out) : u_out[i] = "warn_no_new_version"
        /\ downloads = 0
        /\ child.kind # "none"
        /\ Len(cmd) >= 3
        /\ (child.kind = "exited" => u_exit = <<child.code>>)

\* C3 (as claimed): a failed download is not fatal: the finished run has
\* still invoked the local binary.
C3_DownloadFailureNotFatal ==
    (download_failed /\ u_exit # <<>>) => child.kind # "none"

\* the command the claim C4 describes: java, the -D arguments, -jar <binary>,
\* then every remaining argument after position 0
ForwardedCommand(arglist) ==
    <<<<"java">>>>
        \o SelectSeq(arglist, LAMBDA a : StartsWith(a, JavaOptPrefix))
        \o <<<<"-jar">>, UPLOADER_FILENAME>>
        \o SelectSeq(Tail(arglist), LAMBDA a : ~StartsWith(a, JavaOptPrefix))

\* C4 (as claimed): the built command is java, the -D arguments, -jar <binary>,
\* then all other caller arguments except the invocation name at position 0,
\* none dropped or duplicated, each group in the order supplied.
C4_AllArgumentsForwarded ==
    cmd # <<>> => cmd = ForwardedCommand(argv)

\* C5: when the wrapped process exits with a code, the updater exits with
\* exactly that code.
C5_ExitCodePropagated ==
    child.kind = "exited" => u_exit = <<child.code>>

\* C5 witness: the wrapped process exited with a code other than 0 and 1
C5_Witness ==
    child.kind = "exited" /\ child.code = 255 /\ u_exit = <<255>>

-----------------------------------------------------------------------------
(* Properties of sophia.py *)

\* the sheet has an experiment-name row
HasExperimentRow(rows) == \E i \in 1..Len(rows) : IsExperimentNameRow(rows[i])

\* the first experiment-name row of the sheet
ExperimentRow(rows) ==
    rows[CHOOSE i \in 1..Len(rows) :
            /\ IsExperimentNameRow(rows[i])
            /\ \A j \in 1..(i - 1) : ~IsExperimentNameRow(rows[j])]

\* the sheet was read and its experiment-name row has a second cell
HasMetadataValue ==
    /\ seen.sheet = "yes"
    /\ HasExperimentRow(sheet)
    /\ Len(ExperimentRow(sheet)) >= 2

\* the metadata value: the second cell of that row, surrounding blanks aside
MetadataValue == Strip(ExperimentRow(sheet)[2])

NoSeparatorIn(s) == \A i \in 1..Len(s) : s[i] # Separator

\* C6: a metadata value <prefix>_<suffix>, the prefix being the text before
\* its first '_' and both sides non-empty, is extracted as exactly
\* (prefix, suffix); a value without '_', or with nothing before or nothing
\* after the '_', makes extraction fail, and then no upload command is built.
C6_ExtractionSplitsAtSeparator ==
    HasMetadataValue =>
        LET v == MetadataValue IN
        /\ \A k \in 1..Len(v) :
              LET prefix == SubSeq(v, 1, k - 1)
                  suffix == SubSeq(v, k + 1, Len(v))
              IN  (v[k] = Separator /\ prefix # <<>> /\ suffix # <<>>
                     /\ NoSeparatorIn(prefix))
                  => /\ details.ok
                     /\ details.experiment_name = prefix
                     /\ details.bds_identifier = suffix
        /\ ( \/ NoSeparatorIn(v)
             \/ v[1] = Separator
             \/ (v[Len(v)] = Separator /\ NoSeparatorIn(SubSeq(v, 1, Len(v) - 1))) )
           => /\ ~details.ok
              /\ l_exit = <<1>>
              /\ upload_command = <<>>
              /\ spawned = 0

\* C6 witness: a value that splits was extracted
C6_Witness ==
    /\ HasMetadataValue
    /\ ExperimentRow(sheet) = <<LabelPadded, <<"R", "_", "R">>>>
    /\ details.ok
    /\ details.experiment_name = <<"R">>
    /\ details.bds_identifier = <<"R">>

\* C7: a child process is spawned only when dry-run is off and the run folder,
\* the sheet root, the sheet, the experiment identifier and the BaseCalls
\* directory were all found; in dry-run mode, and when BaseCalls is missing,
\* nothing is ever spawned.
C7_SpawnOnlyWhenAllPreconditionsHold ==
    /\ spawned > 0 =>
          /\ ~args.dry_run
          /\ seen.run_folder = "yes"
          /\ seen.root = "yes"
          /\ seen.sheet = "yes"
          /\ details.ok
          /\ seen.basecalls = "yes"
    /\ (args.dry_run \/ seen.basecalls = "no") => spawned = 0

\* C7 witness: a process was spawned
C7_Witness ==
    spawned = 1 /\ ~args.dry_run /\ seen.basecalls = "yes" /\ l_exit = <<0>>

\* a value that splits at its first '_' into two non-empty sides
SplitsIntoTwo(v) ==
    \E k \in 2..(Len(v) - 1) : v[k] = Separator /\ NoSeparatorIn(SubSeq(v, 1, k - 1))

\* the row can be used: it has a second cell whose value, blanks aside, splits
UsableRow(row) == Len(row) >= 2 /\ SplitsIntoTwo(Strip(row[2]))

\* C11: extraction is decided by the first row whose first cell, trimmed and
\* compared without regard to case, is the label: when that row has no second
\* cell, an empty one, or a value that does not split into non-empty prefix
\* and suffix, extraction fails whatever the rows after it hold; otherwise the
\* result is that row's value; rows before it, whose first cell does not
\* match, are skipped; with no such row extraction fails.
C11_FirstMatchingRowDecides ==
    seen.sheet = "yes" /\ l_err # <<"traceback">> =>
        IF HasExperimentRow(sheet)
        THEN IF UsableRow(ExperimentRow(sheet))
             THEN /\ details.ok
                  /\ details.raw_value = Strip(ExperimentRow(sheet)[2])
             ELSE /\ ~details.ok
                  /\ l_exit = <<1>>
                  /\ upload_command = <<>>
        ELSE ~details.ok /\ l_exit = <<1>>

\* C11 witness: a non-matching row was skipped, the first matching row has a
\* value without '_', a later matching row is well formed, and extraction
\* failed
C11_Witness ==
    /\ seen.sheet = "yes"
    /\ sheet = << <<LabelDate, GoodValue>>,
                  <<LabelPadded, <<"R">>>>,
                  <<LabelPlain, GoodValue>> >>
    /\ UsableRow(sheet[3])
    /\ ~details.ok
    /\ l_exit = <<1>>

-----------------------------------------------------------------------------
(* Properties of validate.py *)

\* the CLI mode the i-th run_command call must be
ExpectedCall(i) ==
    IF i = 1 THEN "login-iam"
    ELSE IF i = 2 THEN "status"
    ELSE IF i = 3 THEN "pipeline"
    ELSE "new"

\* the number of CLI calls made when failing at a check: those of the checks
\* before it, and its own unless it failed before or while starting the CLI
CallsWhenFailing(check) ==
    IF check = "login" THEN {0, 1}
    ELSE IF check = "recent" THEN {1, 2}
    ELSE IF check = "pipeline" THEN {2, 3}
    ELSE {3 + fastq_index, 4 + fastq_index}

\* the diagnostics of each check
Diagnostics(check) ==
    {"run_command_raised"} \cup
    (IF check = "login" THEN {"exited_nonzero", "login_message_not_found"}
     ELSE IF check = "recent" THEN {"exited_nonzero", "unexpected_status_output"}
     ELSE IF check = "pipeline" THEN {"exited_nonzero", "pipeline_not_found"}
     ELSE {"expected_error_not_found", "no_error_exit_code", "missing_key",
           "not_mapping"})

\* the latest CLI result meets the login check's conditions
LoginGood == last.exit_code = 0 /\ Contains(last.output, EXPECTED_LOGIN_IAM_MESSAGE)

\* C8: the checks run in the order login, recent-activity, pipeline,
\* negative-path; a check goes on to the next only when its conditions held;
\* the first failure ends the run with no further CLI call, exit status 1 and
\* that check's diagnostic; the success line and exit 0 come only after all
\* four passed.  A login call with exit code 0 whose output lacks the expected
\* text fails, and nothing is run after it.
C8_ChecksInOrderFirstFailureAborts ==
    /\ \A i \in 1..Len(calls) : calls[i] = ExpectedCall(i)
    /\ (Len(calls) = 1 /\ v_pc = "recent") => LoginGood
    /\ (Len(calls) = 1 /\ ~LoginGood) =>
          /\ v_exit = <<1>>
          /\ v_failure.check = "login"
          /\ (last.exit_code = 0 => v_failure.cause = "login_message_not_found")
    /\ v_pc = "pipeline" =>
          /\ Len(calls) = 2
          /\ last.exit_code = 0
          /\ CountRunLines(last.output) >= RECENT_RUNS_TO_CHECK
    /\ (v_pc = "fastq" /\ Len(calls) = 3) =>
          last.exit_code = 0 /\ Contains(last.output, EXPECTED_PIPELINE_ID)
    /\ v_failure.check # "none" =>
          /\ v_exit = <<1>>
          /\ v_out = <<"validation_failed">>
          /\ Len(calls) \in CallsWhenFailing(v_failure.check)
          /\ v_failure.cause \in Diagnostics(v_failure.check)
    /\ v_exit = <<0>> =>
          /\ v_failure.check = "none"
          /\ v_out = <<"validation_passed">>
          /\ Len(calls) = 3 + Len(FASTQ_TESTS)
          /\ fastq_index = Len(FASTQ_TESTS)
    /\ (\E i \in 1..Len(v_out) : v_out[i] = "validation_passed") => v_exit = <<0>>

\* C8 witness: the login call returned 0 without the expected text, and the
\* validator stopped there
C8_Witness ==
    /\ calls = <<"login-iam">>
    /\ last.exit_code = 0
    /\ ~Contains(last.output, EXPECTED_LOGIN_IAM_MESSAGE)
    /\ v_failure = [check |-> "login", cause |-> "login_message_not_found"]
    /\ v_exit = <<1>>

\* the latest CLI call was made for a FASTQ test case
FastqCalled == Len(calls) > 3

\* that test case's expected error text
FastqExpected == FASTQ_TESTS[Len(calls) - 3].expected_error

\* the CLI rejected the bad input as expected
FastqGood == last.exit_code # 0 /\ Contains(last.output, FastqExpected)

\* a test case passes exactly when the CLI returned non-zero and printed the
\* expected text; otherwise the validator fails at that case
FastqPassesOnlyWhenRejected ==
    FastqCalled =>
        /\ fastq_index = Len(calls) - 3 <=> FastqGood
        /\ ~FastqGood =>
              /\ fastq_index = Len(calls) - 4
              /\ v_failure.check = "fastq"
              /\ v_exit = <<1>>

\* C9 (as claimed): ... and whenever the CLI returns exit 0 for a case, the
\* failure reported is the one saying it did not return an error exit code.
C9_ExitZeroReportedAsNoErrorCode ==
    /\ FastqPassesOnlyWhenRejected
    /\ (FastqCalled /\ last.exit_code = 0) => v_failure.cause = "no_error_exit_code"

\* C9 (amended): a test case passes only if the CLI's exit status is non-zero
\* and the expected text is in the output; otherwise the validator fails at
\* that case.  The expected text is looked for first: when it is missing the
\* failure reported is the missing-text one, whatever the exit status, and
\* exit 0 is reported as "did not return an error exit code" only when the
\* text is present.
C9_MissingTextReportedFirst ==
    /\ FastqPassesOnlyWhenRejected
    /\ (FastqCalled /\ ~Contains(last.output, FastqExpected))
          => v_failure.cause = "expected_error_not_found"
    /\ (FastqCalled /\ last.exit_code = 0 /\ Contains(last.output, FastqExpected))
          => v_failure.cause = "no_error_exit_code"

\* C9 witness: the CLI returned 0 and printed the expected text
C9_Witness ==
    /\ FastqCalled
    /\ last.exit_code = 0
    /\ Contains(last.output, FastqExpected)
    /\ v_failure = [check |-> "fastq", cause |-> "no_error_exit_code"]

\* C10 (as claimed): every fatal path of the run launcher and of the validator
\* has written a message to standard error when the process ends with a
\* non-zero status, however syslog behaved.
C10_FatalPathsWriteToStderr ==
    /\ (l_exit # <<>> /\ l_exit # <<0>>) => (l_exit = <<1>> /\ l_err # <<>>)
    /\ (v_exit # <<>> /\ v_exit # <<0>>) => (v_exit = <<1>> /\ v_err # <<>>)

=============================================================================
